---- MODULE Spec2Model ----
(***************************************************************************)
(* TwiML builder (src/src/twiml.rs): typed element builders wrapping an    *)
(* ElementFactory node, and serialisation through the xml_builder crate.   *)
(*                                                                         *)
(* Strings are sequences of one-character strings, Option<String> is a     *)
(* sequence of length 0 (None) or 1 (Some), a Vec is a sequence.           *)
(***************************************************************************)
EXTENDS Integers, Sequences, FiniteSets, TLC

VARIABLES
  pool,      \* the builder values the caller currently owns, each with the
             \* calls made on it so far (history)
  rendered,  \* what the most recent call returned if it was to_xml_string
  budget,    \* how many constructor and setter calls the caller makes
  made       \* how many nodes have been constructed so far (history)

vars == <<pool, rendered, budget, made>>

\* ------------------------------------------------------------------ bounds
\* nodes the caller constructs when it builds a tree of any shape
MaxNodes == 3
\* setter calls the caller makes on a single builder
MaxAttrs == 2

\* ------------------------------------------------------- argument values
\* impl Into<String> arguments: a plain string, and one that holds the text
\* of an entity followed by every character XML reserves
Plain == <<"a">>
Special == <<"&", "l", "t", ";", "<", ">", "\"", "'">>
Usizes == {0, 12}
\* the strings of the spec's end-to-end example
Welcome == <<"W", "e", "l", "c", "o", "m", "e">>
NextUrl == <<"/", "n", "e", "x", "t">>

StrArg(s) == [ty |-> "str", s |-> s, n |-> 0, b |-> FALSE]
UsizeArg(n) == [ty |-> "usize", s |-> <<>>, n |-> n, b |-> FALSE]
BoolArg(b) == [ty |-> "bool", s |-> <<>>, n |-> 0, b |-> b]
UnitArg == [ty |-> "unit", s |-> <<>>, n |-> 0, b |-> FALSE]

ArgsOf(ty, strings) ==
  CASE ty = "str" -> {StrArg(s) : s \in strings}
    [] ty = "usize" -> {UsizeArg(n) : n \in Usizes}
    [] ty = "bool" -> {BoolArg(b) : b \in BOOLEAN}
    [] ty = "unit" -> {UnitArg}

\* Option<String>
None == <<>>
Some(s) == <<s>>

\* ------------------------------------------------- std string conversions
Digit(d) == CASE d = 0 -> "0" [] d = 1 -> "1" [] d = 2 -> "2" [] d = 3 -> "3"
              [] d = 4 -> "4" [] d = 5 -> "5" [] d = 6 -> "6" [] d = 7 -> "7"
              [] d = 8 -> "8" [] d = 9 -> "9"

RECURSIVE usize_to_string(_)
usize_to_string(n) ==
  IF n < 10 THEN <<Digit(n)>>
  ELSE Append(usize_to_string(n \div 10), Digit(n % 10))

\* mutant: the boolean is written capitalised
bool_to_string_capitalised(b) ==
  IF b THEN <<"T", "r", "u", "e">> ELSE <<"F", "a", "l", "s", "e">>

bool_to_string(b) ==
  IF b THEN <<"t", "r", "u", "e">> ELSE <<"f", "a", "l", "s", "e">>

\* value.into() for impl Into<String>, value.to_string() for usize and bool
ArgString(arg) ==
  CASE arg.ty = "str" -> arg.s
    [] arg.ty = "usize" -> usize_to_string(arg.n)
    [] arg.ty = "bool" -> bool_to_string(arg.b)

\* ------------------------------------------------------- ElementFactory
ElementFactory_new(element, text) ==
  [element |-> element, text |-> text, attributes |-> <<>>, children |-> <<>>]

\* ----------------------------------------------------- element catalogue
\* One record per builder type: the tag and text mode its `new` passes to
\* ElementFactory::new, its attribute setters <<method, attribute, arg type>>
\* and its child methods <<method, child type, mode>>; mode "arg" pushes the
\* builder passed in, "text" pushes Child::new(arg), "unit" pushes Child::new().

\* mutant: Response also has a body method
Response_accepts_body ==
  [kind |-> "Response", element |-> "Response", text |-> "none",
   setters |-> {},
   childMethods |-> {
      <<"say", "Say", "arg">>,
      <<"play", "Play", "arg">>,
      <<"gather", "Gather", "arg">>,
      <<"record", "Record", "arg">>,
      <<"dial", "Dial", "arg">>,
      <<"message", "Message", "arg">>,
      <<"redirect", "Redirect", "text">>,
      <<"pause", "Pause", "arg">>,
      <<"hangup", "Hangup", "unit">>,
      <<"reject", "Reject", "arg">>,
      <<"enqueue", "Enqueue", "arg">>,
      <<"leave", "Leave", "unit">>,
      <<"connect", "Connect", "arg">>,
      <<"pay", "Pay", "arg">>,
      <<"refer", "Refer", "arg">>,
      <<"stream", "Stream", "arg">>,
      <<"body", "Body", "arg">>}]

\* impl Response  (twiml.rs 88-190)
Response ==
  [kind |-> "Response", element |-> "Response", text |-> "none",
   setters |-> {},
   childMethods |-> {
      <<"say", "Say", "arg">>,
      <<"play", "Play", "arg">>,
      <<"gather", "Gather", "arg">>,
      <<"record", "Record", "arg">>,
      <<"dial", "Dial", "arg">>,
      <<"message", "Message", "arg">>,
      <<"redirect", "Redirect", "text">>,
      <<"pause", "Pause", "arg">>,
      <<"hangup", "Hangup", "unit">>,
      <<"reject", "Reject", "arg">>,
      <<"enqueue", "Enqueue", "arg">>,
      <<"leave", "Leave", "unit">>,
      <<"connect", "Connect", "arg">>,
      <<"pay", "Pay", "arg">>,
      <<"refer", "Refer", "arg">>,
      <<"stream", "Stream", "arg">>}]

\* impl Say  (twiml.rs 205-229)
Say ==
  [kind |-> "Say", element |-> "Say", text |-> "required",
   setters |-> {
      <<"voice", "voice", "str">>,
      <<"language", "language", "str">>,
      <<"loop_times", "loop", "usize">>},
   childMethods |-> {}]

\* impl Play  (twiml.rs 244-262)
Play ==
  [kind |-> "Play", element |-> "Play", text |-> "required",
   setters |-> {
      <<"loop_times", "loop", "usize">>,
      <<"digits", "digits", "str">>},
   childMethods |-> {}]

\* mutant: Gather also has a number method
Gather_accepts_number ==
  [kind |-> "Gather", element |-> "Gather", text |-> "none",
   setters |-> {
      <<"action", "action", "str">>,
      <<"method", "method", "str">>,
      <<"num_digits", "numDigits", "str">>,
      <<"timeout", "timeout", "usize">>,
      <<"finish_on_key", "finishOnKey", "str">>,
      <<"input", "input", "str">>,
      <<"language", "language", "str">>,
      <<"hints", "hints", "str">>,
      <<"profanity_filter", "profanityFilter", "bool">>},
   childMethods |-> {
      <<"say", "Say", "arg">>,
      <<"play", "Play", "arg">>,
      <<"pause", "Pause", "arg">>,
      <<"number", "Number", "arg">>}]

\* impl Gather  (twiml.rs 277-355)
Gather ==
  [kind |-> "Gather", element |-> "Gather", text |-> "none",
   setters |-> {
      <<"action", "action", "str">>,
      <<"method", "method", "str">>,
      <<"num_digits", "numDigits", "str">>,
      <<"timeout", "timeout", "usize">>,
      <<"finish_on_key", "finishOnKey", "str">>,
      <<"input", "input", "str">>,
      <<"language", "language", "str">>,
      <<"hints", "hints", "str">>,
      <<"profanity_filter", "profanityFilter", "bool">>},
   childMethods |-> {
      <<"say", "Say", "arg">>,
      <<"play", "Play", "arg">>,
      <<"pause", "Pause", "arg">>}]

\* impl Record  (twiml.rs 370-436)
Record ==
  [kind |-> "Record", element |-> "Record", text |-> "none",
   setters |-> {
      <<"action", "action", "str">>,
      <<"method", "method", "str">>,
      <<"timeout", "timeout", "usize">>,
      <<"finish_on_key", "finishOnKey", "str">>,
      <<"max_length", "maxLength", "usize">>,
      <<"play_beep", "playBeep", "bool">>,
      <<"recording_status_callback", "recordingStatusCallback", "str">>,
      <<"recording_status_callback_method", "recordingStatusCallbackMethod", "str">>,
      <<"transcribe", "transcribe", "bool">>,
      <<"transcribe_callback", "transcribeCallback", "str">>},
   childMethods |-> {}]

\* impl Dial  (twiml.rs 451-553)
Dial ==
  [kind |-> "Dial", element |-> "Dial", text |-> "optional",
   setters |-> {
      <<"action", "action", "str">>,
      <<"method", "method", "str">>,
      <<"timeout", "timeout", "usize">>,
      <<"hangup_on_star", "hangupOnStar", "bool">>,
      <<"time_limit", "timeLimit", "usize">>,
      <<"caller_id", "callerId", "str">>,
      <<"record", "record", "str">>,
      <<"trim", "trim", "str">>,
      <<"recording_status_callback", "recordingStatusCallback", "str">>,
      <<"recording_status_callback_method", "recordingStatusCallbackMethod", "str">>,
      <<"answer_on_bridge", "answerOnBridge", "bool">>,
      <<"ring_tone", "ringTone", "str">>},
   childMethods |-> {
      <<"number", "Number", "arg">>,
      <<"client", "Client", "arg">>,
      <<"conference", "Conference", "arg">>,
      <<"sip", "Sip", "arg">>}]

\* impl Number  (twiml.rs 568-610)
Number ==
  [kind |-> "Number", element |-> "Number", text |-> "required",
   setters |-> {
      <<"send_digits", "sendDigits", "str">>,
      <<"url", "url", "str">>,
      <<"method", "method", "str">>,
      <<"status_callback_event", "statusCallbackEvent", "str">>,
      <<"status_callback", "statusCallback", "str">>,
      <<"status_callback_method", "statusCallbackMethod", "str">>},
   childMethods |-> {}]

\* impl Client  (twiml.rs 625-661)
Client ==
  [kind |-> "Client", element |-> "Client", text |-> "required",
   setters |-> {
      <<"url", "url", "str">>,
      <<"method", "method", "str">>,
      <<"status_callback_event", "statusCallbackEvent", "str">>,
      <<"status_callback", "statusCallback", "str">>,
      <<"status_callback_method", "statusCallbackMethod", "str">>},
   childMethods |-> {}]

\* impl Conference  (twiml.rs 676-760)
Conference ==
  [kind |-> "Conference", element |-> "Conference", text |-> "required",
   setters |-> {
      <<"muted", "muted", "bool">>,
      <<"start_conference_on_enter", "startConferenceOnEnter", "bool">>,
      <<"end_conference_on_exit", "endConferenceOnExit", "bool">>,
      <<"max_participants", "maxParticipants", "usize">>,
      <<"beep", "beep", "str">>,
      <<"record", "record", "str">>,
      <<"trim", "trim", "str">>,
      <<"status_callback_event", "statusCallbackEvent", "str">>,
      <<"status_callback", "statusCallback", "str">>,
      <<"status_callback_method", "statusCallbackMethod", "str">>,
      <<"recording_status_callback", "recordingStatusCallback", "str">>,
      <<"recording_status_callback_method", "recordingStatusCallbackMethod", "str">>,
      <<"region", "region", "str">>},
   childMethods |-> {}]

\* impl Sip  (twiml.rs 775-823)
Sip ==
  [kind |-> "Sip", element |-> "Sip", text |-> "required",
   setters |-> {
      <<"username", "username", "str">>,
      <<"password", "password", "str">>,
      <<"url", "url", "str">>,
      <<"method", "method", "str">>,
      <<"status_callback_event", "statusCallbackEvent", "str">>,
      <<"status_callback", "statusCallback", "str">>,
      <<"status_callback_method", "statusCallbackMethod", "str">>},
   childMethods |-> {}]

\* impl Message  (twiml.rs 838-886)
Message ==
  [kind |-> "Message", element |-> "Message", text |-> "required",
   setters |-> {
      <<"to", "to", "str">>,
      <<"from", "from", "str">>,
      <<"action", "action", "str">>,
      <<"method", "method", "str">>,
      <<"status_callback", "statusCallback", "str">>},
   childMethods |-> {
      <<"body", "Body", "arg">>,
      <<"media", "Media", "arg">>}]

\* impl Body  (twiml.rs 901-907)
Body ==
  [kind |-> "Body", element |-> "Body", text |-> "required",
   setters |-> {},
   childMethods |-> {}]

\* impl Media  (twiml.rs 922-928)
Media ==
  [kind |-> "Media", element |-> "Media", text |-> "required",
   setters |-> {},
   childMethods |-> {}]

\* impl Redirect  (twiml.rs 943-955)
Redirect ==
  [kind |-> "Redirect", element |-> "Redirect", text |-> "required",
   setters |-> {
      <<"method", "method", "str">>},
   childMethods |-> {}]

\* impl Pause  (twiml.rs 970-982)
Pause ==
  [kind |-> "Pause", element |-> "Pause", text |-> "none",
   setters |-> {
      <<"length", "length", "usize">>},
   childMethods |-> {}]

\* impl Hangup  (twiml.rs 997-1003)
Hangup ==
  [kind |-> "Hangup", element |-> "Hangup", text |-> "none",
   setters |-> {},
   childMethods |-> {}]

\* impl Reject  (twiml.rs 1018-1030)
Reject ==
  [kind |-> "Reject", element |-> "Reject", text |-> "none",
   setters |-> {
      <<"reason", "reason", "str">>},
   childMethods |-> {}]

\* impl Enqueue  (twiml.rs 1045-1087)
Enqueue ==
  [kind |-> "Enqueue", element |-> "Enqueue", text |-> "optional",
   setters |-> {
      <<"action", "action", "str">>,
      <<"method", "method", "str">>,
      <<"wait_url", "waitUrl", "str">>,
      <<"wait_url_method", "waitUrlMethod", "str">>,
      <<"workflow_sid", "workflowSid", "str">>},
   childMethods |-> {
      <<"task", "Task", "arg">>}]

\* impl Task  (twiml.rs 1102-1120)
Task ==
  [kind |-> "Task", element |-> "Task", text |-> "required",
   setters |-> {
      <<"priority", "priority", "usize">>,
      <<"timeout", "timeout", "usize">>},
   childMethods |-> {}]

\* impl Leave  (twiml.rs 1135-1141)
Leave ==
  [kind |-> "Leave", element |-> "Leave", text |-> "none",
   setters |-> {},
   childMethods |-> {}]

\* impl Connect  (twiml.rs 1156-1186)
Connect ==
  [kind |-> "Connect", element |-> "Connect", text |-> "none",
   setters |-> {
      <<"action", "action", "str">>,
      <<"method", "method", "str">>},
   childMethods |-> {
      <<"room", "Room", "arg">>,
      <<"stream", "Stream", "arg">>}]

\* impl Room  (twiml.rs 1201-1213)
Room ==
  [kind |-> "Room", element |-> "Room", text |-> "required",
   setters |-> {
      <<"participant_identity", "participantIdentity", "str">>},
   childMethods |-> {}]

\* impl Stream  (twiml.rs 1228-1252)
Stream ==
  [kind |-> "Stream", element |-> "Stream", text |-> "none",
   setters |-> {
      <<"url", "url", "str">>,
      <<"name", "name", "str">>,
      <<"value", "value", "str">>},
   childMethods |-> {}]

\* mutant: Prompt::new takes a text
Prompt_takes_text ==
  [kind |-> "Prompt", element |-> "Prompt", text |-> "required",
   setters |-> {
      <<"for_attribute", "for", "str">>,
      <<"attempt", "attempt", "usize">>},
   childMethods |-> {
      <<"say", "Say", "arg">>,
      <<"play", "Play", "arg">>,
      <<"pause", "Pause", "arg">>}]

\* mutant: a Prompt also accepts a Pay, which accepts a Prompt
Prompt_accepts_pay ==
  [kind |-> "Prompt", element |-> "Prompt", text |-> "none",
   setters |-> {
      <<"for_attribute", "for", "str">>,
      <<"attempt", "attempt", "usize">>},
   childMethods |-> {
      <<"say", "Say", "arg">>,
      <<"play", "Play", "arg">>,
      <<"pause", "Pause", "arg">>,
      <<"pay", "Pay", "arg">>}]

\* impl Prompt  (twiml.rs 1267-1303)
Prompt ==
  [kind |-> "Prompt", element |-> "Prompt", text |-> "none",
   setters |-> {
      <<"for_attribute", "for", "str">>,
      <<"attempt", "attempt", "usize">>},
   childMethods |-> {
      <<"say", "Say", "arg">>,
      <<"play", "Play", "arg">>,
      <<"pause", "Pause", "arg">>}]

\* impl Refer  (twiml.rs 1318-1342)
Refer ==
  [kind |-> "Refer", element |-> "Refer", text |-> "none",
   setters |-> {
      <<"action", "action", "str">>,
      <<"method", "method", "str">>},
   childMethods |-> {
      <<"sip", "ReferSip", "arg">>}]

\* impl ReferSip  (twiml.rs 1357-1387)
ReferSip ==
  [kind |-> "ReferSip", element |-> "Sip", text |-> "required",
   setters |-> {
      <<"username", "username", "str">>,
      <<"password", "password", "str">>,
      <<"url", "url", "str">>,
      <<"method", "method", "str">>},
   childMethods |-> {}]

\* impl ReferenceIdentity  (twiml.rs 1402-1420)
ReferenceIdentity ==
  [kind |-> "ReferenceIdentity", element |-> "Identity", text |-> "none",
   setters |-> {
      <<"name", "name", "str">>},
   childMethods |-> {
      <<"parameter", "Parameter", "arg">>}]

\* impl Pay  (twiml.rs 1441-1519)
Pay ==
  [kind |-> "Pay", element |-> "Pay", text |-> "none",
   setters |-> {
      <<"action", "action", "str">>,
      <<"method", "method", "str">>,
      <<"charge_amount", "chargeAmount", "str">>,
      <<"payment_connector", "paymentConnector", "str">>,
      <<"token_type", "tokenType", "str">>,
      <<"currency", "currency", "str">>,
      <<"description", "description", "str">>,
      <<"status_callback", "statusCallback", "str">>,
      <<"status_callback_method", "statusCallbackMethod", "str">>,
      <<"timeout", "timeout", "usize">>},
   childMethods |-> {
      <<"parameter", "Parameter", "arg">>,
      <<"prompt", "Prompt", "arg">>}]

\* impl Parameter  (twiml.rs 1534-1540)
Parameter ==
  [kind |-> "Parameter", element |-> "Parameter", text |-> "none",
   setters |-> {},
   childMethods |-> {}]
\* Parameter's setters lie beyond the end of the source text (line 1543).

Catalogue ==
  {Response, Say, Play, Gather, Record, Dial, Number, Client, Conference, Sip,
   Message, Body, Media, Redirect, Pause, Hangup, Reject, Enqueue, Task,
   Leave, Connect, Room, Stream, Prompt, Refer, ReferSip, ReferenceIdentity,
   Pay, Parameter}

Kinds == {k.kind : k \in Catalogue}
KindOf(name) == CHOOSE k \in Catalogue : k.kind = name

\* K::new(..): Self { factory: ElementFactory::new(tag, text) }
New(k, text) == [kind |-> k.kind, factory |-> ElementFactory_new(k.element, text)]

\* the text arguments K::new accepts
NewTexts(k, strings) ==
  CASE k.text = "none" -> {None}
    [] k.text = "required" -> {Some(s) : s \in strings}
    [] k.text = "optional" -> {None} \cup {Some(s) : s \in strings}

\* mutant: the pair is inserted in front
push_attribute_front(b, name, value) ==
  [b EXCEPT !.factory.attributes = <<<<name, value>>>> \o @]

\* mutant: a pair of the same name is updated in place
push_attribute_replacing(b, name, value) ==
  LET a == b.factory.attributes
      hit == {k \in 1..Len(a) : a[k][1] = name}
  IN IF hit = {} THEN [b EXCEPT !.factory.attributes = Append(@, <<name, value>>)]
     ELSE [b EXCEPT !.factory.attributes =
                      [k \in 1..Len(a) |-> IF k \in hit THEN <<name, value>> ELSE a[k]]]

\* self.factory.attributes.push((name, value)); self
push_attribute(b, name, value) ==
  [b EXCEPT !.factory.attributes = Append(@, <<name, value>>)]

\* mutant: the child is inserted in front
push_child_front(b, child) ==
  [b EXCEPT !.factory.children = <<child>> \o @]

\* self.factory.children.push(Box::new(child)); self
push_child(b, child) ==
  [b EXCEPT !.factory.children = Append(@, child)]

\* mutant: the setter also takes the text out of the builder
ApplySetter_takes_text(b, s, arg) ==
  [push_attribute(b, s[2], ArgString(arg)) EXCEPT !.factory.text = None]

\* mutant: the pair is pushed on the builder and on each of its children
ApplySetter_reaches_children(b, s, arg) ==
  [push_attribute(b, s[2], ArgString(arg)) EXCEPT
     !.factory.children =
        [k \in 1..Len(@) |-> push_attribute(@[k], s[2], ArgString(arg))]]

\* mutant: the pair goes to the element added last, the newest child if there is one
ApplySetter_on_last_child(b, s, arg) ==
  IF b.factory.children = <<>> THEN push_attribute(b, s[2], ArgString(arg))
  ELSE [b EXCEPT !.factory.children[Len(b.factory.children)] =
                   push_attribute(@, s[2], ArgString(arg))]

\* an attribute setter <<method, attribute, type>> applied to builder b
ApplySetter(b, s, arg) == push_attribute(b, s[2], ArgString(arg))

\* mutant: a child method without argument constructs its child with Some("")
ChildPushed_unit_empty_text(m, arg, given) ==
  CASE m[3] = "arg" -> given
    [] m[3] = "text" -> New(KindOf(m[2]), Some(arg.s))
    [] m[3] = "unit" -> New(KindOf(m[2]), Some(<<>>))

\* the child a child method <<method, child type, mode>> pushes
ChildPushed(m, arg, given) ==
  CASE m[3] = "arg" -> given
    [] m[3] = "text" -> New(KindOf(m[2]), Some(arg.s))
    [] m[3] = "unit" -> New(KindOf(m[2]), None)

\* mutant: the child method starts the attribute list afresh
ApplyChildMethod_resets_attributes(b, m, arg, given) ==
  [push_child(b, ChildPushed(m, arg, given)) EXCEPT !.factory.attributes = <<>>]

\* a child method <<method, child type, mode>> applied to builder b
ApplyChildMethod(b, m, arg, given) == push_child(b, ChildPushed(m, arg, given))

\* ------------------------------------------------- xml_builder (dependency)
\* utils::escape_str: the five reserved characters, `&` first
EscapeChar(c) ==
  CASE c = "&" -> <<"&", "a", "m", "p", ";">>
    [] c = "<" -> <<"&", "l", "t", ";">>
    [] c = ">" -> <<"&", "g", "t", ";">>
    [] c = "\"" -> <<"&", "q", "u", "o", "t", ";">>
    [] c = "'" -> <<"&", "a", "p", "o", "s", ";">>
    [] OTHER -> <<c>>

RECURSIVE escape_str(_)
escape_str(s) ==
  IF s = <<>> THEN <<>> ELSE EscapeChar(Head(s)) \o escape_str(Tail(s))

\* XMLElementContent: Empty | Elements(Vec<XMLElement>) | Text(String)
Empty == [tag |-> "Empty", elems |-> <<>>, text |-> <<>>]
Elements(es) == [tag |-> "Elements", elems |-> es, text |-> <<>>]
Text(t) == [tag |-> "Text", elems |-> <<>>, text |-> t]

XMLElement_new(name) == [name |-> name, attributes |-> <<>>, content |-> Empty]

\* Result<(), XMLError> together with the element the call leaves behind
Ok(e) == [ok |-> TRUE, elem |-> e]
Err(e) == [ok |-> FALSE, elem |-> e]

add_attribute(e, name, value) ==
  [e EXCEPT !.attributes = Append(@, <<name, escape_str(value)>>)]

add_child(e, child) ==
  CASE e.content.tag = "Empty" -> Ok([e EXCEPT !.content = Elements(<<child>>)])
    [] e.content.tag = "Elements" ->
         Ok([e EXCEPT !.content = Elements(Append(e.content.elems, child))])
    [] e.content.tag = "Text" -> Err(e)

add_text(e, text) ==
  CASE e.content.tag = "Empty" -> Ok([e EXCEPT !.content = Text(escape_str(text))])
    [] OTHER -> Err(e)

\* XMLElement::attributes_as_string with attribute sorting off (the default,
\* which to_xml_string leaves alone)
RECURSIVE attributes_as_string(_)
attributes_as_string(attrs) ==
  IF attrs = <<>> THEN <<>>
  ELSE <<" ", Head(attrs)[1], "=", "\"">> \o Head(attrs)[2] \o <<"\"">>
       \o attributes_as_string(Tail(attrs))

\* XMLElement::render with break_lines(false), indent(false)
RECURSIVE render(_), render_all(_)
render(e) ==
  CASE e.content.tag = "Empty" ->
         <<"<", e.name>> \o attributes_as_string(e.attributes) \o <<"/>">>
    [] e.content.tag = "Elements" ->
         <<"<", e.name>> \o attributes_as_string(e.attributes) \o <<">">>
         \o render_all(e.content.elems) \o <<"</", e.name, ">">>
    [] e.content.tag = "Text" ->
         <<"<", e.name>> \o attributes_as_string(e.attributes) \o <<">">>
         \o e.content.text \o <<"</", e.name, ">">>
render_all(es) ==
  IF es = <<>> THEN <<>> ELSE render(Head(es)) \o render_all(Tail(es))

\* XML::generate on the document to_xml_string configures
\* mutant: the builder is configured with XMLVersion::XML1_0
XmlDeclaration_1_0 == <<"<?xml version=\"1.0\" encoding=\"UTF-8\"?>">>

XmlDeclaration == <<"<?xml version=\"1.1\" encoding=\"UTF-8\"?>">>
generate(root) == XmlDeclaration \o render(root)

\* ---------------------------------------------- ElementFactory::to_xml
\* A call either yields an XMLElement or panics in an unwrap().
Panic == [panic |-> TRUE, elem |-> XMLElement_new("")]
Done(e) == [panic |-> FALSE, elem |-> e]

\* mutant: the value is escaped before it is handed to add_attribute
RECURSIVE AddAttributes_escaped_twice(_, _)
AddAttributes_escaped_twice(elem, attrs) ==
  IF attrs = <<>> THEN elem
  ELSE AddAttributes_escaped_twice(
         add_attribute(elem, Head(attrs)[1], escape_str(Head(attrs)[2])), Tail(attrs))

\* mutant: of the pairs of one name only the last is handed to add_attribute
RECURSIVE AddAttributes_last_wins(_, _)
AddAttributes_last_wins(elem, attrs) ==
  IF attrs = <<>> THEN elem
  ELSE IF \E k \in 2..Len(attrs) : attrs[k][1] = Head(attrs)[1]
       THEN AddAttributes_last_wins(elem, Tail(attrs))
       ELSE AddAttributes_last_wins(
              add_attribute(elem, Head(attrs)[1], Head(attrs)[2]), Tail(attrs))

\* for (key, value) in &self.attributes { elem.add_attribute(key, value); }
RECURSIVE AddAttributes(_, _)
AddAttributes(elem, attrs) ==
  IF attrs = <<>> THEN elem
  ELSE AddAttributes(add_attribute(elem, Head(attrs)[1], Head(attrs)[2]), Tail(attrs))

RECURSIVE to_xml(_), AddChildren(_, _)

\* for child in &self.children { elem.add_child(child.to_xml()).unwrap(); }
AddChildren(elem, children) ==
  IF children = <<>> THEN Done(elem)
  ELSE LET c == to_xml(Head(children)) IN
       IF c.panic THEN Panic
       ELSE LET r == add_child(elem, c.elem) IN
            IF r.ok THEN AddChildren(r.elem, Tail(children)) ELSE Panic

\* mutant: the text is never added to the element
AddText_dropped(elem, text) == Done(elem)

\* if let Some(text) = self.text.clone() { elem.add_text(text).unwrap(); }
AddText(elem, text) ==
  IF text = None THEN Done(elem)
  ELSE LET r == add_text(elem, text[1]) IN IF r.ok THEN Done(r.elem) ELSE Panic

\* mutant: the element is named after the builder type, not the factory's element
to_xml_named_by_type(b) ==
  LET f == b.factory
      withAttrs == AddAttributes(XMLElement_new(b.kind), f.attributes)
      withChildren == AddChildren(withAttrs, f.children)
  IN IF withChildren.panic THEN Panic ELSE AddText(withChildren.elem, f.text)

\* every builder's to_xml is self.factory.to_xml()
to_xml(b) ==
  LET f == b.factory
      withAttrs == AddAttributes(XMLElement_new(f.element), f.attributes)
      withChildren == AddChildren(withAttrs, f.children)
  IN IF withChildren.panic THEN Panic ELSE AddText(withChildren.elem, f.text)

\* ------------------------------------------- ToXmlString::to_xml_string
NoRender == [tag |-> "None", doc |-> <<>>, src |-> 0]

\* mutant: the declaration is written before the tree is converted
to_xml_string_streaming(b) ==
  LET x == to_xml(b) IN
  IF x.panic THEN [tag |-> "Panic", doc |-> XmlDeclaration]
  ELSE [tag |-> "Doc", doc |-> generate(x.elem)]

\* mutant: the root element is written a second time after the document
to_xml_string_root_twice(b) ==
  LET x == to_xml(b) IN
  IF x.panic THEN [tag |-> "Panic", doc |-> <<>>]
  ELSE [tag |-> "Doc", doc |-> generate(x.elem) \o render(x.elem)]

to_xml_string(b) ==
  LET x == to_xml(b) IN
  IF x.panic THEN [tag |-> "Panic", doc |-> <<>>]
  ELSE [tag |-> "Doc", doc |-> generate(x.elem)]

\* ------------------------------------------------------------- measures
RECURSIVE SumSeq(_)
SumSeq(s) == IF s = <<>> THEN 0 ELSE Head(s) + SumSeq(Tail(s))

RECURSIVE NodeCount(_)
NodeCount(b) ==
  1 + SumSeq([i \in 1..Len(b.factory.children) |-> NodeCount(b.factory.children[i])])

RECURSIVE AttrCount(_)
AttrCount(b) ==
  Len(b.factory.attributes)
  + SumSeq([i \in 1..Len(b.factory.children) |-> AttrCount(b.factory.children[i])])

PoolNodes == SumSeq([i \in 1..Len(pool) |-> NodeCount(pool[i].b)])
PoolAttrs == SumSeq([i \in 1..Len(pool) |-> AttrCount(pool[i].b)])

\* ---------------------------------------------------------- the caller
\* What the caller sets out to do: how many nodes it constructs, how many
\* children it gives a node, how many setters it calls, how many builders it
\* owns at a time (a receiver and an argument), the strings it passes and the
\* builder types it uses.
\*   - a tree of any shape of three nodes, of any types, without attributes
\*   - a tree of any shape of MaxNodes nodes, of the types that nest
\*   - a chain, with one node more than the deepest nesting the child methods allow
\*   - a single builder of any type with two attributes
\*   - a single builder with MaxAttrs attributes of string, number and boolean setters
\*   - a parent and a child with one attribute between them
\*   - the spec's example: a Response, a Say and a Redirect
Budgets ==
  {[nodes |-> 3, width |-> 2, attrs |-> 0, builders |-> 2, strings |-> {Special},
    kinds |-> Kinds],
   [nodes |-> MaxNodes, width |-> MaxNodes, attrs |-> 0, builders |-> 2,
    strings |-> {Special},
    kinds |-> {"Response", "Gather", "Dial", "Say", "Number", "Hangup", "Pay", "Prompt"}],
   [nodes |-> 5, width |-> 1, attrs |-> 0, builders |-> 2, strings |-> {Special},
    kinds |-> Kinds],
   [nodes |-> 1, width |-> 0, attrs |-> 2, builders |-> 1, strings |-> {Special},
    kinds |-> Kinds],
   [nodes |-> 1, width |-> 0, attrs |-> MaxAttrs, builders |-> 1, strings |-> {Special},
    kinds |-> {"Say", "Gather", "Record"}],
   [nodes |-> 2, width |-> 1, attrs |-> 1, builders |-> 2, strings |-> {Plain},
    kinds |-> {"Response", "Gather", "Dial", "Say", "Number", "Conference"}],
   [nodes |-> 3, width |-> 2, attrs |-> 0, builders |-> 2, strings |-> {Welcome, NextUrl},
    kinds |-> {"Response", "Say", "Redirect"}]}

NoBuilder == [kind |-> "-", factory |-> ElementFactory_new("-", None)]
AttrCall(s, arg) == [op |-> "attr", method |-> s, arg |-> arg, given |-> NoBuilder]
ChildCall(m, arg, given) == [op |-> "child", method |-> m, arg |-> arg, given |-> given]

\* mutant: the builder given to the parent stays with the caller as well
Remove_keeps(s, j) == s

\* the caller's builders without the one moved away
Remove(s, j) == [i \in 1..(Len(s) - 1) |-> IF i < j THEN s[i] ELSE s[i + 1]]

Running == rendered.tag # "Panic"

Init ==
  /\ pool = <<>>
  /\ rendered = NoRender
  /\ budget \in Budgets
  /\ made = 0

\* let b = K::new(text)
Construct(k, text) ==
  /\ Running
  /\ k.kind \in budget.kinds
  /\ PoolNodes < budget.nodes
  /\ Len(pool) < budget.builders
  /\ pool' = Append(pool, [b |-> New(k, text), ctor |-> text, calls |-> <<>>])
  /\ rendered' = NoRender
  /\ made' = made + 1
  /\ UNCHANGED budget

\* mutant: the builders of one type share their attribute list
SetAttribute_shared(i, s, arg) ==
  /\ Running
  /\ PoolAttrs < budget.attrs
  /\ pool' = [j \in 1..Len(pool) |->
                IF j = i
                THEN [pool[j] EXCEPT !.b = ApplySetter(@, s, arg),
                                     !.calls = Append(@, AttrCall(s, arg))]
                ELSE IF pool[j].b.kind = pool[i].b.kind
                     THEN [pool[j] EXCEPT !.b = ApplySetter(@, s, arg)]
                     ELSE pool[j]]
  /\ rendered' = NoRender
  /\ UNCHANGED <<budget, made>>

\* let b = b.setter(arg)
SetAttribute(i, s, arg) ==
  /\ Running
  /\ PoolAttrs < budget.attrs
  /\ pool' = [pool EXCEPT ![i] = [@ EXCEPT !.b = ApplySetter(@, s, arg),
                                             !.calls = Append(@, AttrCall(s, arg))]]
  /\ rendered' = NoRender
  /\ UNCHANGED <<budget, made>>

\* let parent = parent.method(child): the child builder is moved into the parent
AppendChild(i, j, m) ==
  /\ Running
  /\ i # j
  /\ m[3] = "arg"
  /\ Len(pool[i].b.factory.children) < budget.width
  /\ pool[j].b.kind = m[2]
  /\ LET given == pool[j].b
         parent == [pool[i] EXCEPT !.b = ApplyChildMethod(@, m, UnitArg, given),
                                   !.calls = Append(@, ChildCall(m, UnitArg, given))]
     IN pool' = Remove([pool EXCEPT ![i] = parent], j)
  /\ rendered' = NoRender
  /\ UNCHANGED <<budget, made>>

\* let parent = parent.method(arg) / parent.method(): the method constructs the child
AppendNewChild(i, m, arg) ==
  /\ Running
  /\ m[3] # "arg"
  /\ m[2] \in budget.kinds
  /\ PoolNodes < budget.nodes
  /\ Len(pool[i].b.factory.children) < budget.width
  /\ pool' = [pool EXCEPT ![i] =
                [@ EXCEPT !.b = ApplyChildMethod(@, m, arg, NoBuilder),
                          !.calls = Append(@, ChildCall(m, arg, NoBuilder))]]
  /\ rendered' = NoRender
  /\ made' = made + 1
  /\ UNCHANGED budget

\* mutant: to_xml_string takes the builder by value, the caller loses it
Render_consumes(i) ==
  /\ Running
  /\ rendered' = to_xml_string(pool[i].b) @@ [src |-> i]
  /\ pool' = Remove(pool, i)
  /\ UNCHANGED <<budget, made>>

\* mutant: to_xml drains the children list while it converts it
Render_drains_children(i) ==
  /\ Running
  /\ rendered' = to_xml_string(pool[i].b) @@ [src |-> i]
  /\ pool' = [pool EXCEPT ![i].b.factory.children = <<>>]
  /\ UNCHANGED <<budget, made>>

\* b.to_xml_string(): borrows b; a panic ends the program
Render(i) ==
  /\ Running
  /\ rendered' = to_xml_string(pool[i].b) @@ [src |-> i]
  /\ UNCHANGED <<pool, budget, made>>

Next ==
  \/ \E k \in Catalogue : \E text \in NewTexts(k, budget.strings) : Construct(k, text)
  \/ \E i \in 1..Len(pool) : \E s \in KindOf(pool[i].b.kind).setters :
       \E arg \in ArgsOf(s[3], budget.strings) : SetAttribute(i, s, arg)
  \/ \E i \in 1..Len(pool), j \in 1..Len(pool) :
       \E m \in KindOf(pool[i].b.kind).childMethods : AppendChild(i, j, m)
  \/ \E i \in 1..Len(pool) : \E m \in KindOf(pool[i].b.kind).childMethods :
       \E arg \in ArgsOf(IF m[3] = "text" THEN "str" ELSE "unit", budget.strings) :
         AppendNewChild(i, m, arg)
  \/ \E i \in 1..Len(pool) : Render(i)

Spec == Init /\ [][Next]_vars

\* ----------------------------------------------------- derived notions
RECURSIVE Nodes(_)
\* the builder b and every builder below it
Nodes(b) ==
  {b} \cup UNION {Nodes(b.factory.children[i]) : i \in 1..Len(b.factory.children)}

AllNodes == UNION {Nodes(pool[i].b) : i \in 1..Len(pool)}

ChildKinds(n) == {n.factory.children[i].kind : i \in 1..Len(n.factory.children)}

RECURSIVE Flatten(_)
Flatten(ss) == IF ss = <<>> THEN <<>> ELSE Head(ss) \o Flatten(Tail(ss))

IsAttrCall(c) == c.op = "attr"
IsChildCall(c) == c.op = "child"
AttrCalls(i) == SelectSeq(pool[i].calls, IsAttrCall)
ChildCalls(i) == SelectSeq(pool[i].calls, IsChildCall)

\* the attribute pairs the setter calls on builder i name, in call order
CalledPairs(i) ==
  [k \in 1..Len(AttrCalls(i)) |-> <<AttrCalls(i)[k].method[2], ArgString(AttrCalls(i)[k].arg)>>]

\* the markup of one attribute: space, name, equals sign, quoted escaped value
AttrMarkup(pair) == <<" ", pair[1], "=", "\"">> \o escape_str(pair[2]) \o <<"\"">>

\* the open tag (without its closing bracket) of builder i as the calls on it give it
OpenTagOfCalls(i) ==
  <<"<", pool[i].b.factory.element>>
  \o Flatten([k \in 1..Len(CalledPairs(i)) |-> AttrMarkup(CalledPairs(i)[k])])

IsPrefix(s, t) == Len(s) <= Len(t) /\ SubSeq(t, 1, Len(s)) = s

RenderedFrom(i) == rendered.tag = "Doc" /\ rendered.src = i

\* C1: on every builder the attribute list is the sequence of (name, value)
\* pairs of the setter calls made on it, in call order, and a rendering of the
\* builder emits the attributes of its tag in that order.
AttributesInCallOrder ==
  \A i \in 1..Len(pool) :
    /\ pool[i].b.factory.attributes = CalledPairs(i)
    /\ RenderedFrom(i) => IsPrefix(XmlDeclaration \o OpenTagOfCalls(i), rendered.doc)

\* a builder with two different attributes has been rendered
AttributesInCallOrderWitness ==
  \E i \in 1..Len(pool) :
    /\ RenderedFrom(i)
    /\ Len(pool[i].b.factory.attributes) >= 2
    /\ pool[i].b.factory.attributes[1] # pool[i].b.factory.attributes[2]

\* the child each child-appending call on builder i passed, in call order
CalledChildren(i) ==
  [k \in 1..Len(ChildCalls(i)) |->
     ChildPushed(ChildCalls(i)[k].method, ChildCalls(i)[k].arg, ChildCalls(i)[k].given)]

\* the markup of a child's complete subtree, rendered on its own
SubtreeMarkup(child) == render(to_xml(child).elem)

\* C2: on every builder the children list is the appended children in call
\* order, and a rendering emits each child's complete subtree between the
\* parent's open and close tags in that order.
ChildrenInCallOrder ==
  \A i \in 1..Len(pool) :
    LET f == pool[i].b.factory IN
    /\ f.children = CalledChildren(i)
    /\ (RenderedFrom(i) /\ f.children # <<>>) =>
         rendered.doc =
           XmlDeclaration \o OpenTagOfCalls(i) \o <<">">>
           \o Flatten([k \in 1..Len(CalledChildren(i)) |-> SubtreeMarkup(CalledChildren(i)[k])])
           \o <<"</", f.element, ">">>

\* a builder with two different children has been rendered
ChildrenInCallOrderWitness ==
  \E i \in 1..Len(pool) :
    LET c == pool[i].b.factory.children IN
    /\ RenderedFrom(i)
    /\ Len(c) >= 2
    /\ c[1] # c[2]

HasText(n) == n.factory.text # None
HasChildren(n) == n.factory.children # <<>>

\* C3: no node has both a text payload and a non-empty children list.
TextExcludesChildren ==
  \A n \in AllNodes : ~(HasText(n) /\ HasChildren(n))

\* C4: every tree the constructors and chained methods assemble renders to a
\* document: to_xml_string never reaches an unwrap failure.
RenderNeverPanics == rendered.tag # "Panic"

\* the kinds the legality table lists for the root document
ListedRootChildren ==
  {"Say", "Gather", "Redirect", "Play", "Pause", "Hangup", "Record", "Dial",
   "Message", "Enqueue", "Leave", "Connect", "Pay", "Refer"}

\* C5 as stated: each child of a Response is one of the fourteen listed kinds.
ResponseChildrenListed ==
  \A n \in AllNodes : n.kind = "Response" => ChildKinds(n) \subseteq ListedRootChildren

\* C5 as amended: each child of a Response is one of the fourteen listed kinds
\* or a Reject or a Stream.
ResponseChildrenLegal ==
  \A n \in AllNodes :
    n.kind = "Response" => ChildKinds(n) \subseteq ListedRootChildren \cup {"Reject", "Stream"}

\* a Response holds a Reject and a Stream
ResponseChildrenLegalWitness ==
  \E n \in AllNodes : n.kind = "Response" /\ ChildKinds(n) = {"Reject", "Stream"}

\* C6: Gather holds only Say/Play/Pause, Dial only Number/Client/Conference/
\* Sip, Message only Body/Media; a Number occurs only as a child of Dial.
ContainerChildrenLegal ==
  \A n \in AllNodes :
    /\ n.kind = "Gather" => ChildKinds(n) \subseteq {"Say", "Play", "Pause"}
    /\ n.kind = "Dial" => ChildKinds(n) \subseteq {"Number", "Client", "Conference", "Sip"}
    /\ n.kind = "Message" => ChildKinds(n) \subseteq {"Body", "Media"}
    /\ "Number" \in ChildKinds(n) => n.kind = "Dial"

\* a Response holds a Dial that holds a Number
ContainerChildrenLegalWitness ==
  \E n \in AllNodes :
    /\ n.kind = "Response"
    /\ \E j \in 1..Len(n.factory.children) :
         /\ n.factory.children[j].kind = "Dial"
         /\ "Number" \in ChildKinds(n.factory.children[j])

TextLeaves ==
  {"Say", "Play", "Number", "Client", "Conference", "Sip", "Body", "Media",
   "Redirect", "Room", "Task", "ReferSip"}

\* C8: a text-bearing leaf carries the text given to its constructor and,
\* whatever chained methods were called on it, has no children.
TextLeavesKeepText ==
  /\ \A n \in AllNodes : n.kind \in TextLeaves => HasText(n) /\ ~HasChildren(n)
  /\ \A i \in 1..Len(pool) :
       pool[i].b.kind \in TextLeaves =>
         /\ pool[i].ctor # None
         /\ pool[i].b.factory.text = pool[i].ctor

\* a text-bearing leaf on which a chained method was called has become a child
TextLeavesKeepTextWitness ==
  \E n \in AllNodes : \E k \in 1..Len(n.factory.children) :
    /\ n.factory.children[k].kind \in TextLeaves
    /\ n.factory.children[k].factory.attributes # <<>>

\* the characters XML reserves and the entity that stands for each
Reserved == {"&", "<", ">", "\"", "'"}
Entity(c) ==
  CASE c = "&" -> <<"&", "a", "m", "p", ";">>
    [] c = "<" -> <<"&", "l", "t", ";">>
    [] c = ">" -> <<"&", "g", "t", ";">>
    [] c = "\"" -> <<"&", "q", "u", "o", "t", ";">>
    [] c = "'" -> <<"&", "a", "p", "o", "s", ";">>

EntityAt(v, p) == {c \in Reserved : IsPrefix(Entity(c), SubSeq(v, p, Len(v)))}

\* v holds the reserved characters in escaped form only: none of < > " ' and
\* an & only where it opens an entity
OnlyEscapedForms(v) ==
  \A p \in 1..Len(v) :
    /\ v[p] \notin {"<", ">", "\"", "'"}
    /\ v[p] = "&" => EntityAt(v, p) # {}

\* what an XML parser reads back from the escaped value v
RECURSIVE Unescape(_)
Unescape(v) ==
  IF v = <<>> THEN <<>>
  ELSE IF EntityAt(v, 1) # {}
       THEN LET c == CHOOSE c \in EntityAt(v, 1) : TRUE
            IN <<c>> \o Unescape(SubSeq(v, Len(Entity(c)) + 1, Len(v)))
       ELSE <<Head(v)>> \o Unescape(Tail(v))

HasReserved(s) == \E p \in 1..Len(s) : s[p] \in Reserved

\* C10: in the element every node converts to, each attribute value and the
\* text hold the reserved characters in escaped form only, and un-escaping them
\* gives back the value the builder was given; the document rendered from a
\* node without children is its open tag, that escaped text and its close tag.
EscapedRoundTrip ==
  /\ \A n \in AllNodes :
       LET x == to_xml(n) IN
       ~x.panic =>
         /\ Len(x.elem.attributes) = Len(n.factory.attributes)
         /\ \A k \in 1..Len(n.factory.attributes) :
              /\ OnlyEscapedForms(x.elem.attributes[k][2])
              /\ Unescape(x.elem.attributes[k][2]) = n.factory.attributes[k][2]
         /\ HasText(n) =>
              /\ x.elem.content.tag = "Text"
              /\ OnlyEscapedForms(x.elem.content.text)
              /\ Unescape(x.elem.content.text) = n.factory.text[1]
  /\ \A i \in 1..Len(pool) :
       (RenderedFrom(i) /\ HasText(pool[i].b)) =>
          /\ IsPrefix(XmlDeclaration \o OpenTagOfCalls(i) \o <<">">>, rendered.doc)
          /\ LET body == SubSeq(rendered.doc, Len(OpenTagOfCalls(i)) + 3, Len(rendered.doc) - 3)
             IN /\ OnlyEscapedForms(body)
                /\ Unescape(body) = pool[i].b.factory.text[1]

\* a builder whose text and attribute value both hold every reserved character
\* has been rendered
EscapedRoundTripWitness ==
  \E i \in 1..Len(pool) :
    LET f == pool[i].b.factory IN
    /\ RenderedFrom(i)
    /\ HasText(pool[i].b) /\ Reserved \subseteq {f.text[1][p] : p \in 1..Len(f.text[1])}
    /\ \E k \in 1..Len(f.attributes) :
         Reserved \subseteq {f.attributes[k][2][p] : p \in 1..Len(f.attributes[k][2])}

\* ------------------------------------------------------ document shape
RECURSIVE Scan(_, _, _, _)
\* the number of elements at nesting depth 0 among the tokens doc[p..], or -1
\* when an element is left open at the end; "<" opens an element, "/>" and
\* "</" close one (escaped values hold none of these tokens)
Scan(doc, p, depth, count) ==
  IF p > Len(doc) THEN (IF depth = 0 THEN count ELSE -1)
  ELSE CASE doc[p] = "<" ->
              Scan(doc, p + 1, depth + 1, IF depth = 0 THEN count + 1 ELSE count)
         [] doc[p] \in {"/>", "</"} -> Scan(doc, p + 1, depth - 1, count)
         [] OTHER -> Scan(doc, p + 1, depth, count)

\* the top-level elements of a document: those after the declaration
TopLevelElements(doc) == Scan(doc, 2, 0, 0)

RootIsResponse == rendered.tag = "Doc" => rendered.doc[3] = "Response"

\* C12: to_xml_string is implemented for every builder type, and the top-level
\* element of a rendered document is the element of the builder it was called
\* on; it is Response exactly when that builder is a Response.
RootIsRenderedBuilder ==
  \A i \in 1..Len(pool) :
    RenderedFrom(i) =>
      /\ rendered.doc[2] = "<"
      /\ rendered.doc[3] = pool[i].b.factory.element
      /\ (rendered.doc[3] = "Response") <=> (pool[i].b.kind = "Response")

\* a document rendered from a Say builder, whose root is Say
RootIsRenderedBuilderWitness ==
  \E i \in 1..Len(pool) :
    /\ RenderedFrom(i)
    /\ pool[i].b.kind = "Say"
    /\ rendered.doc[3] = "Say"

\* the open tag of node n without its closing bracket, and its close tag
OpenTag(n) ==
  <<"<", n.factory.element>>
  \o Flatten([k \in 1..Len(n.factory.attributes) |-> AttrMarkup(n.factory.attributes[k])])
CloseTag(n) == <<"</", n.factory.element, ">">>

IsSelfClosing(markup) == markup[Len(markup)] = "/>"

\* C13: in a rendered document every node is in self-closing form exactly when
\* it has neither text nor children; a node with text is its open tag, the
\* escaped text and its close tag, with no child element; a node with children
\* is its open tag, the children's markup in order and its close tag, with no
\* text in between.
RenderForms ==
  \A i \in 1..Len(pool) :
    RenderedFrom(i) =>
      \A n \in Nodes(pool[i].b) :
        LET markup == SubtreeMarkup(n)
            kids == n.factory.children
        IN /\ IsSelfClosing(markup) <=> (~HasText(n) /\ ~HasChildren(n))
           /\ (~HasText(n) /\ ~HasChildren(n)) => markup = OpenTag(n) \o <<"/>">>
           /\ HasText(n) =>
                markup = OpenTag(n) \o <<">">> \o escape_str(n.factory.text[1]) \o CloseTag(n)
           /\ HasChildren(n) =>
                markup = OpenTag(n) \o <<">">>
                         \o Flatten([k \in 1..Len(kids) |-> SubtreeMarkup(kids[k])])
                         \o CloseTag(n)

\* a rendered document whose root has a self-closing child and a child with text
RenderFormsWitness ==
  \E i \in 1..Len(pool) :
    /\ RenderedFrom(i)
    /\ \E k, l \in 1..Len(pool[i].b.factory.children) :
         LET n == pool[i].b.factory.children[k]
             t == pool[i].b.factory.children[l]
         IN /\ ~HasText(n) /\ ~HasChildren(n) /\ IsSelfClosing(SubtreeMarkup(n))
            /\ HasText(t) /\ ~IsSelfClosing(SubtreeMarkup(t))

\* the literal an attribute holds for a boolean argument
BoolLiteral(b) == IF b THEN <<"t", "r", "u", "e">> ELSE <<"f", "a", "l", "s", "e">>

\* C14: every setter call appends exactly one pair, and the pair of a setter
\* called with a boolean holds the setter's attribute name and the literal
\* "true" or "false" that matches the argument; a false argument is neither
\* left out nor written in another form.
BooleanSettersLiteral ==
  \A i \in 1..Len(pool) :
    LET attrs == pool[i].b.factory.attributes
        calls == AttrCalls(i)
    IN /\ Len(attrs) = Len(calls)
       /\ \A k \in 1..Len(calls) :
            calls[k].arg.ty = "bool" =>
              attrs[k] = <<calls[k].method[2], BoolLiteral(calls[k].arg.b)>>

\* Conference::new(..).muted(false).start_conference_on_enter(true)
BooleanSettersLiteralWitness ==
  \E i \in 1..Len(pool) :
    /\ pool[i].b.kind = "Conference"
    /\ pool[i].b.factory.attributes =
         << <<"muted", <<"f", "a", "l", "s", "e">> >>,
            <<"startConferenceOnEnter", <<"t", "r", "u", "e">> >> >>
    /\ Len(AttrCalls(i)) = 2

\* the document of the spec's end-to-end example, token by token
ExampleDocument ==
  <<"<?xml version=\"1.1\" encoding=\"UTF-8\"?>",
    "<", "Response", ">",
    "<", "Say", ">", "W", "e", "l", "c", "o", "m", "e", "</", "Say", ">",
    "<", "Redirect", ">", "/", "n", "e", "x", "t", "</", "Redirect", ">",
    "</", "Response", ">">>

\* builder i was made by Response::new().say(Say::new("Welcome")).redirect("/next")
IsExampleChain(i) ==
  /\ pool[i].b.kind = "Response"
  /\ Len(pool[i].calls) = 2
  /\ pool[i].calls[1].op = "child"
  /\ pool[i].calls[1].method[1] = "say"
  /\ pool[i].calls[1].given = New(Say, Some(Welcome))
  /\ pool[i].calls[2].op = "child"
  /\ pool[i].calls[2].method[1] = "redirect"
  /\ pool[i].calls[2].arg = StrArg(NextUrl)

\* C15: Response::new().say(Say::new("Welcome")).redirect("/next") renders to
\* exactly the declaration, <Response>, <Say>Welcome</Say>,
\* <Redirect>/next</Redirect> and </Response>, with nothing between them.
ExampleRendersExactly ==
  \A i \in 1..Len(pool) :
    (IsExampleChain(i) /\ rendered.tag # "None" /\ rendered.src = i) =>
      (rendered.tag = "Doc" /\ rendered.doc = ExampleDocument)

\* the example chain, rendered
ExampleRendersExactlyWitness ==
  \E i \in 1..Len(pool) :
    IsExampleChain(i) /\ RenderedFrom(i) /\ Len(rendered.doc) = Len(ExampleDocument)

\* C16 as stated: once a document has been rendered from a tree, no step
\* changes that tree; it stays as it is, as a builder or inside a parent.
NoBuildAfterRender ==
  [][rendered.tag = "Doc" => pool[rendered.src].b \in AllNodes']_vars

\* C16: to_xml_string borrows the builder: after a render the caller still owns
\* the builder, with the very tree the document was made from, so the builder
\* methods stay applicable to it.
BuilderKeptAfterRender ==
  rendered.tag # "None" =>
    /\ rendered.src \in 1..Len(pool)
    /\ to_xml_string(pool[rendered.src].b).tag = rendered.tag
    /\ to_xml_string(pool[rendered.src].b).doc = rendered.doc

\* a rendered builder on which a setter can be called next
BuilderKeptAfterRenderWitness ==
  \E i \in 1..Len(pool) :
    /\ RenderedFrom(i)
    /\ pool[i].b.factory.attributes # <<>>
    /\ KindOf(pool[i].b.kind).setters # {}
    /\ PoolAttrs < budget.attrs

\* builder c is builder b with pairs and children appended, nothing else changed
Extends(b, c) ==
  /\ c.kind = b.kind
  /\ c.factory.element = b.factory.element
  /\ c.factory.text = b.factory.text
  /\ IsPrefix(b.factory.attributes, c.factory.attributes)
  /\ IsPrefix(b.factory.children, c.factory.children)

\* the last child of every builder the caller owns
LastChildren(p) ==
  {p[j].b.factory.children[Len(p[j].b.factory.children)] :
     j \in {x \in 1..Len(p) : p[x].b.factory.children # <<>>}}

\* C17: every step is append-only.  A builder the caller owns is afterwards the
\* same builder with its attribute list and its children list extended at the
\* end (each child with its whole subtree as it was), or it has been moved, as
\* it was, to the end of a parent's children; no pair and no child is removed,
\* replaced, reordered or taken out of its parent.
AppendOnly ==
  [][\A i \in 1..Len(pool) :
       \/ /\ Len(pool') >= Len(pool)
          /\ Extends(pool[i].b, pool'[i].b)
       \/ /\ Len(pool') < Len(pool)
          /\ \/ pool[i].b \in LastChildren(pool')
             \/ \E j \in {i - 1, i} \cap 1..Len(pool') : Extends(pool[i].b, pool'[j].b)]_vars

\* one setter called twice with different arguments: both pairs are there
AppendOnlyWitness ==
  \E i \in 1..Len(pool) :
    LET attrs == pool[i].b.factory.attributes
    IN /\ Len(attrs) = 2
       /\ attrs[1][1] = attrs[2][1]
       /\ attrs[1][2] # attrs[2][2]

\* C18: children are exclusively owned.  Every node that has been constructed
\* occurs exactly once among the caller's builders and the trees below them: a
\* builder given to a child method is in its parent and nowhere else, so the
\* caller has no builder left to mutate, append again or render on its own.
EveryNodeOwnedOnce ==
  /\ PoolNodes = made
  /\ \A i \in 1..Len(pool) : \A k \in 1..Len(ChildCalls(i)) :
       ChildCalls(i)[k].method[3] = "arg" =>
         /\ pool[i].b.factory.children[k] = ChildCalls(i)[k].given
         /\ Len(pool) < made

\* a builder constructed on its own and then given to a parent: the caller
\* owns the parent only
EveryNodeOwnedOnceWitness ==
  /\ Len(pool) = 1
  /\ made = 2
  /\ Len(pool[1].calls) = 1
  /\ pool[1].calls[1].op = "child"
  /\ pool[1].calls[1].method[3] = "arg"
  /\ pool[1].b.factory.children = <<pool[1].calls[1].given>>

RECURSIVE ReplayCalls(_, _)
\* builder b after the calls, made one after the other with nothing in between
ReplayCalls(b, calls) ==
  IF calls = <<>> THEN b
  ELSE LET c == Head(calls)
       IN ReplayCalls(IF c.op = "attr" THEN ApplySetter(b, c.method, c.arg)
                      ELSE ApplyChildMethod(b, c.method, c.arg, c.given),
                      Tail(calls))

\* the builder that the chain of pool entry e yields when it runs alone
RunAlone(e) == ReplayCalls(New(KindOf(e.b.kind), e.ctor), e.calls)

\* C19: however the calls on the caller's builders are interleaved, each
\* builder is what its own constructor and its own calls make of it, so no call
\* on one chain has changed another, and a document rendered from a builder is
\* the document its chain renders when it runs alone.
ChainsIndependent ==
  /\ \A i \in 1..Len(pool) : pool[i].b = RunAlone(pool[i])
  /\ \A i \in 1..Len(pool) :
       (rendered.tag # "None" /\ rendered.src = i) =>
         /\ rendered.tag = to_xml_string(RunAlone(pool[i])).tag
         /\ rendered.doc = to_xml_string(RunAlone(pool[i])).doc

\* two chains, each advanced by a call of its own, and one of them rendered
ChainsIndependentWitness ==
  /\ Len(pool) = 2
  /\ pool[1].calls # <<>>
  /\ pool[2].calls # <<>>
  /\ RenderedFrom(2)

\* the number of elements opened in a document
OpenedElements(doc) == Cardinality({p \in 1..Len(doc) : doc[p] = "<"})

\* C20: a render has no partial success.  A render that returns gives the whole
\* document: the declaration and the markup of the entire tree, one element
\* per node, every element closed; a render that fails, fails while the tree is
\* converted, before anything is written, and gives no text at all.
NoPartialDocument ==
  /\ rendered.tag = "Doc" =>
       LET b == pool[rendered.src].b
       IN /\ rendered.doc = XmlDeclaration \o SubtreeMarkup(b)
          /\ OpenedElements(rendered.doc) = NodeCount(b)
          /\ TopLevelElements(rendered.doc) # -1
  /\ rendered.tag = "Panic" =>
       /\ rendered.doc = <<>>
       /\ to_xml(pool[rendered.src].b).panic

\* a render that failed on a node with text and a child, with no output
NoPartialDocumentWitness ==
  /\ rendered.tag = "Panic"
  /\ rendered.doc = <<>>
  /\ \E n \in Nodes(pool[rendered.src].b) : HasText(n) /\ HasChildren(n)

\* setter calls k and l on builder i are calls of one setter
SameSetter(i, k, l) == AttrCalls(i)[k].method = AttrCalls(i)[l].method

\* C21: when one setter is called on a builder with v1 and later with v2, the
\* attribute list holds (name, v1) at the place of the first call and
\* (name, v2) at the place of the second, and a rendering of the builder emits
\* both, the first before the second: the second call neither overwrites nor
\* removes the first.
DuplicateSetterKeepsBoth ==
  \A i \in 1..Len(pool) :
    \A k, l \in 1..Len(AttrCalls(i)) :
      (k < l /\ SameSetter(i, k, l)) =>
        LET attrs == pool[i].b.factory.attributes
            name == AttrCalls(i)[k].method[2]
            first == <<name, ArgString(AttrCalls(i)[k].arg)>>
            second == <<name, ArgString(AttrCalls(i)[l].arg)>>
        IN /\ Len(attrs) = Len(AttrCalls(i))
           /\ attrs[k] = first
           /\ attrs[l] = second
           /\ RenderedFrom(i) =>
                IsPrefix(XmlDeclaration \o <<"<", pool[i].b.factory.element>>
                           \o Flatten([j \in 1..l |-> AttrMarkup(CalledPairs(i)[j])]),
                         rendered.doc)

\* one setter called with 0 and then with 12, and the builder rendered
DuplicateSetterKeepsBothWitness ==
  \E i \in 1..Len(pool) :
    /\ RenderedFrom(i)
    /\ Len(AttrCalls(i)) = 2
    /\ SameSetter(i, 1, 2)
    /\ AttrCalls(i)[1].arg = UsizeArg(0)
    /\ AttrCalls(i)[2].arg = UsizeArg(12)

\* entry e of the builders before a step is entry d after it, with one more call
CalledOnce(e, d) ==
  /\ d.ctor = e.ctor
  /\ d.b.kind = e.b.kind
  /\ Len(d.calls) = Len(e.calls) + 1
  /\ SubSeq(d.calls, 1, Len(e.calls)) = e.calls

\* C22: a setter call appends exactly one pair and leaves the node's name, text
\* and children as they were; a child method call appends exactly one child
\* and leaves the name, text and attributes as they were; the name is never
\* empty, and name and text are those the constructor set.
SetterAndChildMethodFrame ==
  [][\A i \in 1..Len(pool) : \A j \in {i - 1, i} \cap 1..Len(pool') :
       CalledOnce(pool[i], pool'[j]) =>
         LET f == pool[i].b.factory
             g == pool'[j].b.factory
             call == pool'[j].calls[Len(pool'[j].calls)]
         IN /\ g.element = f.element
            /\ g.element # ""
            /\ g.text = f.text
            /\ g.text = pool'[j].ctor
            /\ call.op = "attr" =>
                 /\ Len(g.attributes) = Len(f.attributes) + 1
                 /\ SubSeq(g.attributes, 1, Len(f.attributes)) = f.attributes
                 /\ g.children = f.children
            /\ call.op = "child" =>
                 /\ Len(g.children) = Len(f.children) + 1
                 /\ SubSeq(g.children, 1, Len(f.children)) = f.children
                 /\ g.attributes = f.attributes]_vars

\* a Dial with text, on which a setter and then a child method were called
SetterAndChildMethodFrameWitness ==
  \E i \in 1..Len(pool) :
    /\ pool[i].b.kind = "Dial"
    /\ pool[i].ctor # None
    /\ pool[i].b.factory.text = pool[i].ctor
    /\ Len(pool[i].calls) = 2
    /\ pool[i].calls[1].op = "attr"
    /\ pool[i].calls[2].op = "child"

\* C23: rendering takes a read-only view.  A step that returns from
\* to_xml_string, with a document or with a panic, leaves every builder the
\* caller owns as it was: name, text, attribute list and children list of
\* every node at every depth.
RenderReadOnly ==
  [][rendered'.tag # "None" =>
       /\ Len(pool') = Len(pool)
       /\ \A i \in 1..Len(pool) : Nodes(pool'[i].b) = Nodes(pool[i].b)
       /\ pool' = pool]_vars

\* a document rendered from a builder whose child has text and an attribute
RenderReadOnlyWitness ==
  \E i \in 1..Len(pool) :
    /\ RenderedFrom(i)
    /\ \E k \in 1..Len(pool[i].b.factory.children) :
         /\ HasText(pool[i].b.factory.children[k])
         /\ pool[i].b.factory.children[k].factory.attributes # <<>>

\* the kinds whose constructor takes no text payload, as the claim names them
NoTextKinds ==
  {"Response", "Gather", "Record", "Pause", "Hangup", "Reject", "Leave", "Connect",
   "Stream", "Prompt", "Refer", "Pay", "Parameter"}

\* C24: a builder on which nothing has been called yet has an empty attribute
\* list and an empty children list and the text its constructor was given,
\* none for a constructor without text payload; so has the child that a child
\* method constructs itself; and a Response, Gather, Record, Pause, Hangup,
\* Reject, Leave, Connect, Stream, Prompt, Refer, Pay or Parameter node has no
\* text wherever it is.
ConstructorsYieldEmptyNodes ==
  /\ \A i \in 1..Len(pool) :
       pool[i].calls = <<>> =>
         /\ pool[i].b.factory.attributes = <<>>
         /\ pool[i].b.factory.children = <<>>
         /\ pool[i].b.factory.text = pool[i].ctor
         /\ pool[i].b.kind \in NoTextKinds => pool[i].ctor = None
  /\ \A i \in 1..Len(pool) : \A k \in 1..Len(ChildCalls(i)) :
       ChildCalls(i)[k].method[3] # "arg" =>
         /\ pool[i].b.factory.children[k].factory.attributes = <<>>
         /\ pool[i].b.factory.children[k].factory.children = <<>>
         /\ ChildCalls(i)[k].method[3] = "unit" => ~HasText(pool[i].b.factory.children[k])
  /\ \A n \in AllNodes : n.kind \in NoTextKinds => ~HasText(n)

\* a Gather just constructed, next to a Response whose hangup() made its child
ConstructorsYieldEmptyNodesWitness ==
  \E i, j \in 1..Len(pool) :
    /\ pool[i].b.kind = "Gather" /\ pool[i].calls = <<>>
    /\ pool[j].b.kind = "Response"
    /\ Len(pool[j].calls) = 1
    /\ pool[j].calls[1].method[3] = "unit"
    /\ pool[j].b.factory.children[1].kind = "Hangup"

\* the calls with call k and call k + 1 in each other's place
SwapAt(calls, k) ==
  [j \in 1..Len(calls) |->
     IF j = k THEN calls[k + 1] ELSE IF j = k + 1 THEN calls[k] ELSE calls[j]]

\* what a call pushes: a pair or a child
Pushed(c) ==
  IF c.op = "attr" THEN <<c.method[2], ArgString(c.arg)>>
  ELSE ChildPushed(c.method, c.arg, c.given)

\* C25: a setter call and a child method call that follow each other on a
\* builder commute: made in the other order they give the same builder and the
\* same rendering.  Two setter calls, or two child method calls, commute only
\* when they push the same thing.
AttrAndChildCommute ==
  \A i \in 1..Len(pool) : \A k \in 1..(Len(pool[i].calls) - 1) :
    LET calls == pool[i].calls
        swapped == ReplayCalls(New(KindOf(pool[i].b.kind), pool[i].ctor), SwapAt(calls, k))
    IN /\ calls[k].op # calls[k + 1].op =>
            /\ swapped = pool[i].b
            /\ (rendered.tag # "None" /\ rendered.src = i) =>
                 /\ to_xml_string(swapped).tag = rendered.tag
                 /\ to_xml_string(swapped).doc = rendered.doc
       /\ calls[k].op = calls[k + 1].op =>
            ((swapped = pool[i].b) <=> (Pushed(calls[k]) = Pushed(calls[k + 1])))

\* a Gather rendered after a setter call and then a child method call
AttrAndChildCommuteWitness ==
  \E i \in 1..Len(pool) :
    /\ RenderedFrom(i)
    /\ pool[i].b.kind = "Gather"
    /\ Len(pool[i].calls) = 2
    /\ pool[i].calls[1].op = "attr"
    /\ pool[i].calls[2].op = "child"
    /\ pool[i].b.factory.attributes # <<>>
    /\ pool[i].b.factory.children # <<>>

\* the kinds the child methods of a kind accept
KidsOf(kind) == {m[2] : m \in KindOf(kind).childMethods}

RECURSIVE Closure(_)
\* the kinds in S and every kind that can be nested below one of them
Closure(S) ==
  LET T == S \cup UNION {KidsOf(k) : k \in S}
  IN IF T = S THEN S ELSE Closure(T)

\* the kinds that can occur anywhere below a node of the kind
Descendants(kind) == Closure(KidsOf(kind))

RECURSIVE Level(_)
\* the kinds that can occur at nesting level n of a tree rooted at Response
Level(n) == IF n = 1 THEN {"Response"} ELSE UNION {KidsOf(k) : k \in Level(n - 1)}

RECURSIVE Depth(_)
\* the nesting levels of the tree below builder b, which to_xml descends
Depth(b) ==
  LET kids == b.factory.children
      below == {Depth(kids[k]) : k \in 1..Len(kids)}
  IN 1 + (IF below = {} THEN 0 ELSE CHOOSE d \in below : \A e \in below : e <= d)

\* the kinds at each nesting level of a tree rooted at Response, and all of them
Levels == [n \in 1..5 |-> Level(n)]
InResponseTree == UNION {Levels[n] : n \in 1..5}

\* what the child methods allow: no kind below itself, no Response as a child,
\* Say, Play and Pause at level 4 of a Response tree and nothing at level 5
KindsNestFinitely ==
  /\ \A k \in Kinds : k \notin Descendants(k)
  /\ \A k \in Kinds : "Response" \notin KidsOf(k)
  /\ Levels[4] = {"Say", "Play", "Pause"}
  /\ Levels[5] = {}

\* C26: no kind can be nested, directly or through other kinds, below its own
\* kind, and no child method accepts a Response; the fourth nesting level
\* below a Response holds Say, Play and Pause (under Response > Pay > Prompt)
\* and there is no fifth.  So every tree the caller builds is at most 4 levels
\* deep and holds no more nodes than were constructed, and the recursion of
\* to_xml over it comes to an end.
NestingBounded ==
  /\ KindsNestFinitely
  /\ \A i \in 1..Len(pool) :
       LET depth == Depth(pool[i].b)
       IN /\ depth <= 4
          /\ NodeCount(pool[i].b) <= made
          /\ pool[i].b.kind \in InResponseTree =>
               \E n \in 1..4 : pool[i].b.kind \in Levels[n] /\ depth <= 5 - n
  /\ \A n \in AllNodes : "Response" \notin ChildKinds(n)

\* Response > Pay > Prompt > Say, rendered
NestingBoundedWitness ==
  \E i \in 1..Len(pool) :
    /\ RenderedFrom(i)
    /\ pool[i].b.kind = "Response"
    /\ Depth(pool[i].b) = 4
    /\ \E p \in Nodes(pool[i].b) : p.kind = "Prompt" /\ "Say" \in ChildKinds(p)

\* where the markup of child k of builder i begins in a document rendered from i
ChildOffset(i, k) ==
  Len(XmlDeclaration) + Len(OpenTag(pool[i].b)) + 1
  + SumSeq([j \in 1..(k - 1) |-> Len(SubtreeMarkup(pool[i].b.factory.children[j]))])

\* C27: a child is frozen when it is appended.  Whatever is called on the
\* parent afterwards, child k of a builder is, with its whole subtree, the
\* builder that the k-th child method call pushed (name, text, attributes and
\* children), and a rendering of the parent shows the markup of that builder
\* in the child's place.
ChildFrozenAtAppend ==
  \A i \in 1..Len(pool) : \A k \in 1..Len(ChildCalls(i)) :
    LET appended == Pushed(ChildCalls(i)[k])
        now == pool[i].b.factory.children[k]
    IN /\ now.kind = appended.kind
       /\ now.factory.element = appended.factory.element
       /\ now.factory.text = appended.factory.text
       /\ now.factory.attributes = appended.factory.attributes
       /\ now.factory.children = appended.factory.children
       /\ RenderedFrom(i) =>
            LET markup == SubtreeMarkup(appended)
                offset == ChildOffset(i, k)
            IN SubSeq(rendered.doc, offset + 1, offset + Len(markup)) = markup

\* a parent rendered after a child was appended and a setter was called later
ChildFrozenAtAppendWitness ==
  \E i \in 1..Len(pool) :
    /\ RenderedFrom(i)
    /\ Len(pool[i].calls) = 2
    /\ pool[i].calls[1].op = "child"
    /\ pool[i].calls[2].op = "attr"
    /\ pool[i].b.factory.children[1] = pool[i].calls[1].given
====
